---- MODULE Spec2Model ----
(***************************************************************************)
(* Model of src/echo.py: EchoStdioServer, a line-delimited JSON            *)
(* request/response stub over stdin/stdout.                                *)
(*                                                                         *)
(* Strings are sequences of one-character strings, so that str.split(),    *)
(* string concatenation and comparison are computed.  A JSON value is a    *)
(* pair <<kind, payload>>; a JSON object's payload is a function from key  *)
(* names to JSON values, whose DOMAIN is the set of keys present.          *)
(***************************************************************************)
EXTENDS Integers, Sequences, FiniteSets, TLC

VARIABLES
    pc,             \* position of the process (see the actions below)
    output,         \* lines delivered on stdout, oldest first
    stdout_open,    \* FALSE once the consumer of stdout has gone away
    request,        \* the local `request` of process_stdin (kept across iterations)
    request_count,  \* self.request_count
    line,           \* the raw line returned by the last readline()
    nread,          \* number of lines consumed from stdin so far
    input,          \* history: the lines consumed from stdin, in order
    lineno,         \* index in `input` of the line held in `line` (0: none)
    exit_reason,    \* why the read loop ended ("" while it has not)
    result          \* what the last call of handle_request returned or raised

vars == <<pc, output, stdout_open, request, request_count, line, lineno, nread, input,
          exit_reason, result>>

----------------------------------------------------------------------------
(* Bounds *)

\* number of lines the input stream delivers before end-of-stream at the latest
MaxLines == 3
\* largest value of request_count at which the pure specification calls handle_request
MaxCount == 1

----------------------------------------------------------------------------
(* String literals of the program and of the inputs *)

S_ping ==
    <<"p", "i", "n", "g">>
S_pong ==
    <<"p", "o", "n", "g">>
S_check ==
    <<"c", "h", "e", "c", "k">>
S_echo_test ==
    <<"e", "c", "h", "o", "-", "t", "e", "s", "t">>
S_ping_response ==
    <<"p", "i", "n", "g", "_", "r", "e", "s", "p", "o", "n", "s", "e">>
S_response ==
    <<"r", "e", "s", "p", "o", "n", "s", "e">>
S_healthy ==
    <<"h", "e", "a", "l", "t", "h", "y">>
S_startup ==
    <<"s", "t", "a", "r", "t", "u", "p">>
S_ready ==
    <<"r", "e", "a", "d", "y">>
S_error ==
    <<"e", "r", "r", "o", "r">>
S_EchoFrom ==
    <<"E", "c", "h", "o", " ", "f", "r", "o", "m", " ">>
S_ColonSp ==
    <<":", " ">>
S_JsonDecodePrefix ==
    <<"J", "S", "O", "N", " ", "d", "e", "c", "o", "d", "e", " ", "e", "r", "r", "o", "r", ":", " ">>
S_FailedToParse ==
    <<"F", "a", "i", "l", "e", "d", " ", "t", "o", " ", "p", "a", "r", "s", "e", " ", "J", "S", "O", "N", " ", "r", "e", "q", "u", "e", "s", "t">>
S_ErrProcPrefix ==
    <<"E", "r", "r", "o", "r", " ", "p", "r", "o", "c", "e", "s", "s", "i", "n", "g", " ", "r", "e", "q", "u", "e", "s", "t", ":", " ">>
S_NoAttrMid ==
    <<"'", " ", "o", "b", "j", "e", "c", "t", " ", "h", "a", "s", " ", "n", "o", " ", "a", "t", "t", "r", "i", "b", "u", "t", "e", " ", "'">>
S_None ==
    <<"N", "o", "n", "e">>
S_True ==
    <<"T", "r", "u", "e">>
S_False ==
    <<"F", "a", "l", "s", "e">>
S_NoneType ==
    <<"N", "o", "n", "e", "T", "y", "p", "e">>
S_int ==
    <<"i", "n", "t">>
S_str ==
    <<"s", "t", "r">>
S_bool ==
    <<"b", "o", "o", "l">>
S_list ==
    <<"l", "i", "s", "t">>
S_dict ==
    <<"d", "i", "c", "t">>
S_get ==
    <<"g", "e", "t">>
S_split ==
    <<"s", "p", "l", "i", "t">>
S_BrokenPipe ==
    <<"[", "E", "r", "r", "n", "o", " ", "3", "2", "]", " ", "B", "r", "o", "k", "e", "n", " ", "p", "i", "p", "e">>
S_ExpectingValue ==
    <<"E", "x", "p", "e", "c", "t", "i", "n", "g", " ", "v", "a", "l", "u", "e", ":", " ", "l", "i", "n", "e", " ", "1", " ", "c", "o", "l", "u", "m", "n", " ", "1", " ", "(", "c", "h", "a", "r", " ", "0", ")">>
S_Recursion ==
    <<"m", "a", "x", "i", "m", "u", "m", " ", "r", "e", "c", "u", "r", "s", "i", "o", "n", " ", "d", "e", "p", "t", "h", " ", "e", "x", "c", "e", "e", "d", "e", "d", " ", "w", "h", "i", "l", "e", " ", "d", "e", "c", "o", "d", "i", "n", "g", " ", "a", " ", "J", "S", "O", "N", " ", "a", "r", "r", "a", "y", " ", "f", "r", "o", "m", " ", "a", " ", "u", "n", "i", "c", "o", "d", "e", " ", "s", "t", "r", "i", "n", "g">>
S_hello_world ==
    <<"h", "e", "l", "l", "o", " ", "w", "o", "r", "l", "d">>
S_hi ==
    <<"h", "i">>
S_gpt ==
    <<"g", "p", "t">>

\* characters str.split() and str.strip() treat as whitespace
Whitespace == {" ", "\t", "\n", "\r"}

----------------------------------------------------------------------------
(* JSON values *)

JNull == <<"null", 0>>
JStr(s) == <<"str", s>>
JNum(n) == <<"num", n>>
JBool(b) == <<"bool", b>>
JArr(a) == <<"arr", a>>
JObj(f) == <<"obj", f>>

\* the dict {}
EmptyDict == [k \in {} |-> JNull]

\* isinstance(v, dict)
IsDict(v) == v[1] = "obj"

\* bool(v): Python truthiness of a decoded JSON value
Truthy(v) ==
    CASE v[1] = "null" -> FALSE
      [] v[1] = "bool" -> v[2]
      [] v[1] = "num"  -> v[2] # 0
      [] v[1] = "str"  -> Len(v[2]) > 0
      [] v[1] = "arr"  -> Len(v[2]) > 0
      [] v[1] = "obj"  -> DOMAIN v[2] # {}

\* d.get(key, default) on a dict d
DictGet(d, key, default) == IF key \in DOMAIN d[2] THEN d[2][key] ELSE default

\* type(v).__name__
TypeName(v) ==
    CASE v[1] = "null" -> S_NoneType
      [] v[1] = "bool" -> S_bool
      [] v[1] = "num"  -> S_int
      [] v[1] = "str"  -> S_str
      [] v[1] = "arr"  -> S_list
      [] v[1] = "obj"  -> S_dict

Digits == <<"0", "1", "2", "3", "4", "5", "6", "7", "8", "9">>

\* str(v), as an f-string formats a value (numbers 0..9 only)
Format(v) ==
    CASE v[1] = "null" -> S_None
      [] v[1] = "bool" -> IF v[2] THEN S_True ELSE S_False
      [] v[1] = "num"  -> <<Digits[v[2] + 1]>>
      [] v[1] = "str"  -> v[2]

\* str(e) of the AttributeError raised by v.attr when v has no such attribute
AttributeErrorMsg(v, attr) == <<"'">> \o TypeName(v) \o S_NoAttrMid \o attr \o <<"'">>

\* a call either returns a value or raises an exception with a message
Return(v) == <<"return", v>>
Raise(type, msg) == <<"raise", type, msg>>
Raised(r) == r[1] = "raise"
NoResult == <<"none">>

RECURSIVE SplitFrom(_, _, _)
\* text.split(): the maximal runs of non-whitespace characters of s, in order
SplitFrom(s, word, words) ==
    IF s = <<>>
    THEN IF word = <<>> THEN words ELSE Append(words, word)
    ELSE IF Head(s) \in Whitespace
         THEN SplitFrom(Tail(s), <<>>, IF word = <<>> THEN words ELSE Append(words, word))
         ELSE SplitFrom(Tail(s), Append(word, Head(s)), words)

\* text.split(' '): splits at every single space, keeping empty pieces
split_OnSpace(s) ==
    [i \in 1..(Cardinality({j \in DOMAIN s : s[j] = " "}) + 1) |-> <<>>]

split(s) == SplitFrom(s, <<>>, <<>>)

----------------------------------------------------------------------------
(* EchoStdioServer.handle_request *)

\* response_base that always carries an id, null when the request has none
response_base_Always(request_id) == [id |-> request_id]

\* response_base = {"id": request_id} if request_id else {}
response_base(request_id) ==
    IF Truthy(request_id) THEN [id |-> request_id] ELSE EmptyDict

\* the quick_response test without the test of the text
quick_response_IgnoresText(req) ==
    LET options == DictGet(req, "options", JObj(EmptyDict))
    IN  IF ~IsDict(options)
        THEN Raise("AttributeError", AttributeErrorMsg(options, S_get))
        ELSE Return(Truthy(DictGet(options, "quick_response", JNull)))

\* the third disjunct of the ping condition; it calls .get on whatever
\* request["options"] is, and raises when that is not a dict
quick_response(req) ==
    LET options == DictGet(req, "options", JObj(EmptyDict))
    IN  IF ~IsDict(options)
        THEN Raise("AttributeError", AttributeErrorMsg(options, S_get))
        ELSE Return(Truthy(DictGet(options, "quick_response", JNull))
                    /\ Truthy(DictGet(req, "text", JNull)))

\* the ping condition with the quick_response test evaluated first
is_ping_OptionsFirst(req) ==
    LET quick == quick_response(req)
    IN  IF Raised(quick) THEN quick
        ELSE IF quick[2] THEN Return(TRUE)
        ELSE Return(DictGet(req, "text", JNull) = JStr(S_ping)
                    \/ DictGet(req, "type", JNull) = JStr(S_ping))

\* the condition of the ping fast path, with Python's left-to-right `or`
is_ping(req) ==
    IF DictGet(req, "text", JNull) = JStr(S_ping) THEN Return(TRUE)
    ELSE IF DictGet(req, "type", JNull) = JStr(S_ping) THEN Return(TRUE)
    ELSE quick_response(req)

\* a ping response that also reports the number of requests handled so far
ping_response_Counting(req, base) ==
    JObj(base @@ [text  |-> JStr(S_pong),
                  model |-> DictGet(req, "model", JStr(S_echo_test)),
                  type  |-> JStr(S_ping_response),
                  count |-> JNum(request_count)])

ping_response(req, base) ==
    JObj(base @@ [text  |-> JStr(S_pong),
                  model |-> DictGet(req, "model", JStr(S_echo_test)),
                  type  |-> JStr(S_ping_response)])

\* a health response that also carries a text
health_response_WithText(base) ==
    JObj(base @@ [type |-> JStr(S_response), status |-> JStr(S_healthy),
                  text |-> JStr(S_healthy)])

health_response(base) ==
    JObj(base @@ [type |-> JStr(S_response), status |-> JStr(S_healthy)])

echo_response(req, base) ==
    LET text  == DictGet(req, "text", JStr(<<>>))
        model == DictGet(req, "model", JStr(S_echo_test))
    IN  IF text[1] # "str"
        THEN Raise("AttributeError", AttributeErrorMsg(text, S_split))
        ELSE Return(JObj(base @@
               [text  |-> JStr(S_EchoFrom \o Format(model) \o S_ColonSp \o text[2]),
                model |-> model,
                usage |-> JObj([promptTokens     |-> JNum(Len(split(text[2]))),
                                completionTokens |-> JNum(Len(split(text[2]))),
                                totalTokens      |-> JNum(Len(split(text[2])) * 2)])]))

\* what handle_request(req) returns or raises (request_count is incremented
\* by the caller-side actions, before anything can raise)
handle_request(req) ==
    IF ~IsDict(req)
    THEN Raise("AttributeError", AttributeErrorMsg(req, S_get))
    ELSE LET base == response_base(DictGet(req, "id", JNull))
             ping == is_ping(req)
         IN  IF Raised(ping) THEN ping
             ELSE IF ping[2] THEN Return(ping_response(req, base))
             ELSE IF DictGet(req, "type", JNull) = JStr(S_check)
                  THEN Return(health_response(base))
             ELSE echo_response(req, base)

----------------------------------------------------------------------------
(* Inputs *)

\* A line of stdin is <<kind, payload>>:
\*   "eof"   readline() returned '' (end of stream)
\*   "blank" payload = the raw characters, all of them whitespace
\*   "bad"   text json.loads rejects; payload = str(e) of the JSONDecodeError
\*   "deep"  JSON nested too deeply for json.loads, which raises RecursionError
\*   "json"  well-formed JSON text; payload = the value json.loads returns
EOF == <<"eof", <<>>>>
BlankLine(raw) == <<"blank", raw>>
BadLine(msg) == <<"bad", msg>>
DeepLine == <<"deep", <<>>>>
JsonLine(v) == <<"json", v>>

RECURSIVE lstrip(_)
lstrip(s) == IF s # <<>> /\ Head(s) \in Whitespace THEN lstrip(Tail(s)) ELSE s

RECURSIVE rstrip(_)
rstrip(s) ==
    IF s # <<>> /\ s[Len(s)] \in Whitespace THEN rstrip(SubSeq(s, 1, Len(s) - 1)) ELSE s

\* str.strip()
strip(s) == lstrip(rstrip(s))

\* `not line`, for line = line_bytes_str.strip()
IsEmptyLine(l) == l[1] = "blank" /\ strip(l[2]) = <<>>

\* json.loads(line)
json_loads(l) ==
    CASE l[1] = "json" -> Return(l[2])
      [] l[1] = "bad"  -> Raise("JSONDecodeError", l[2])
      [] l[1] = "deep" -> Raise("RecursionError", S_Recursion)

\* request objects of the read loop's input
R_ping      == JObj([id |-> JStr(<<"1">>), text |-> JStr(S_ping)])
R_echo      == JObj([text |-> JStr(S_hello_world), model |-> JStr(S_echo_test)])
R_check     == JObj([id |-> JStr(<<"7">>), type |-> JStr(S_check)])
R_badopts   == JObj([id |-> JStr(<<"2">>), text |-> JStr(S_hi), options |-> JNull])
R_nulltext  == JObj([text |-> JNull])
R_nullid    == JObj([id |-> JNull, text |-> JNum(5)])
R_empty     == JObj(EmptyDict)

Lines ==
    { BlankLine(<<" ", "\n">>),
      BadLine(S_ExpectingValue),
      DeepLine,
      JsonLine(R_ping), JsonLine(R_echo), JsonLine(R_check),
      JsonLine(R_badopts), JsonLine(R_nulltext), JsonLine(R_nullid),
      JsonLine(R_empty),
      JsonLine(JArr(<<JNum(1)>>)), JsonLine(JNull) }

\* values of time.time() when the banner is built
Clock == {1000, 1001}

\* request objects handle_request is applied to in the pure specification:
\* every combination of an absent or present id, type, text, model, options
Ids     == {JNull, JStr(<<>>), JStr(<<"1">>), JNum(0), JNum(7)}
Types   == {JStr(S_ping), JStr(S_check), JStr(S_response), JNull}
Texts   == {JStr(<<>>), JStr(S_ping), JStr(S_hello_world),
            JStr(<<" ", "a", "\t", " ", "b", "\n">>), JNull, JNum(5)}
Models  == {JStr(<<>>), JStr(S_gpt), JNull, JNum(5)}
Options == {JNull, JNum(5), JObj(EmptyDict),
            JObj([quick_response |-> JBool(TRUE)]),
            JObj([quick_response |-> JBool(FALSE)]),
            JObj([quick_response |-> JNum(1)])}

Absent == <<"absent", 0>>
Opt(S) == S \cup {Absent}
Field(key, v) == IF v = Absent THEN EmptyDict ELSE [k \in {key} |-> v]

AllRequests ==
    { JObj(Field("id", i) @@ Field("type", t) @@ Field("text", x)
           @@ Field("model", m) @@ Field("options", o)) :
        i \in Opt(Ids), t \in Opt(Types), x \in Opt(Texts),
        m \in Opt(Models), o \in Opt(Options) }

----------------------------------------------------------------------------
(* Output *)

\* the local `request` before the first successful json.loads
Unbound == <<"unbound", 0>>

\* One delivered line of stdout: msg is the JSON object written; the other
\* fields record the write: via = which write statement, cause = index in
\* `input` of the line being processed (0 for the banner), read = number of
\* lines consumed from stdin when it was written.
Entry(msg, via, cause, read) == [msg |-> msg, via |-> via, cause |-> cause, read |-> read]

\* list(self.model_configs.keys()); the configurations themselves are never read
model_configs == <<S_echo_test>>

startup_message(t) ==
    JObj([type   |-> JStr(S_startup),
          status |-> JStr(S_ready),
          models |-> JArr([i \in 1..Len(model_configs) |-> JStr(model_configs[i])]),
          time   |-> JNum(t)])

\* the error response of the `except json.JSONDecodeError` handler
decode_error_response(req, msg) ==
    JObj([id    |-> DictGet(req, "id", JStr(S_error)),
          error |-> JStr(S_JsonDecodePrefix \o msg),
          text  |-> JStr(S_FailedToParse)])

\* the error response without the "error" fallback for a missing id
error_response_NoFallback(req, msg) ==
    JObj([id    |-> DictGet(req, "id", JNull),
          error |-> JStr(msg),
          text  |-> JStr(S_ErrProcPrefix \o msg)])

\* the error response of the `except Exception` handler
error_response(req, msg) ==
    JObj([id    |-> DictGet(req, "id", JStr(S_error)),
          error |-> JStr(msg),
          text  |-> JStr(S_ErrProcPrefix \o msg)])

\* sys.stdout.write(...); sys.stdout.flush(): delivers the line, or raises
\* BrokenPipeError and delivers nothing when the consumer has gone away
stdout_write(out, open, entry) == IF open THEN Append(out, entry) ELSE out

\* the JSONDecodeError handler without the test `'id' in request`
on_decode_error_NoIdGuard(out, open, req, msg, cause, read) ==
    IF req # Unbound /\ IsDict(req)
    THEN stdout_write(out, open, Entry(decode_error_response(req, msg), "decode_error", cause, read))
    ELSE out

\* the `except json.JSONDecodeError` handler (lines 118-130): the output after it
on_decode_error(out, open, req, msg, cause, read) ==
    IF req # Unbound /\ IsDict(req) /\ "id" \in DOMAIN req[2]
    THEN stdout_write(out, open, Entry(decode_error_response(req, msg), "decode_error", cause, read))
    ELSE out

\* the Exception handler without the test isinstance(request, dict)
on_exception_AnyRequest(out, open, req, msg, cause, read) ==
    IF req # Unbound /\ Truthy(req)
    THEN stdout_write(out, open,
                      Entry(JObj([id    |-> IF IsDict(req)
                                            THEN DictGet(req, "id", JStr(S_error))
                                            ELSE JStr(S_error),
                                  error |-> JStr(msg),
                                  text  |-> JStr(S_ErrProcPrefix \o msg)]),
                            "error", cause, read))
    ELSE out

\* the `except Exception` handler (lines 134-147): the output after it
on_exception(out, open, req, msg, cause, read) ==
    IF req # Unbound /\ Truthy(req) /\ IsDict(req)
    THEN stdout_write(out, open, Entry(error_response(req, msg), "error", cause, read))
    ELSE out

----------------------------------------------------------------------------
(* The process: __main__, EchoStdioServer.__init__, start, process_stdin *)

\* pc: "new"         before EchoStdioServer() is constructed
\*     "constructed" after __init__, before asyncio.run(server.start())
\*     "wait_stdin"  process_stdin awaits readline() in the executor
\*     "got_line"    readline() has returned, the coroutine has not resumed yet
\*     "sleeping"    process_stdin awaits asyncio.sleep(0.1) after an exception
\*     "finished"    the read loop has ended
\*     "aborted"     __init__ raised and the process exited
Init ==
    /\ pc = "new"
    /\ output = <<>>
    /\ stdout_open = TRUE
    /\ request = Unbound
    /\ request_count = 0
    /\ line = EOF
    /\ lineno = 0
    /\ nread = 0
    /\ input = <<>>
    /\ exit_reason = ""
    /\ result = NoResult

\* Construct without the write of the banner
Construct_NoBanner ==
    /\ pc = "new"
    /\ pc' = "constructed"
    /\ request_count' = 0
    /\ UNCHANGED <<output, stdout_open, request, line, lineno, nread, input,
                   exit_reason, result>>

\* EchoStdioServer.__init__: writes the startup banner; a failing write
\* propagates out of the constructor and ends the process
Construct ==
    /\ pc = "new"
    /\ \E t \in Clock :
         output' = stdout_write(output, stdout_open, Entry(startup_message(t), "startup", 0, nread))
    /\ pc' = IF stdout_open THEN "constructed" ELSE "aborted"
    /\ request_count' = 0
    /\ UNCHANGED <<stdout_open, request, line, lineno, nread, input, exit_reason, result>>

\* asyncio.run(server.start()): creates the process_stdin task, which runs
\* to its first await
Start ==
    /\ pc = "constructed"
    /\ pc' = "wait_stdin"
    /\ UNCHANGED <<output, stdout_open, request, request_count, line, lineno, nread,
                   input, exit_reason, result>>

\* ReadLine that reads ahead: it keeps the next line in `line` but has
\* already consumed the line after it
ReadLine_Prefetch ==
    /\ pc = "wait_stdin"
    /\ \E l \in Lines \cup {EOF} :
         /\ l # EOF => nread < MaxLines
         /\ line' = l
         /\ IF l = EOF
            THEN UNCHANGED <<nread, input, lineno>>
            ELSE \E l2 \in Lines :
                 /\ nread' = nread + 2
                 /\ input' = input \o <<l, l2>>
                 /\ lineno' = nread + 1
    /\ pc' = "got_line"
    /\ UNCHANGED <<output, stdout_open, request, request_count, exit_reason, result>>

\* the executor thread's sys.stdin.readline(): consumes the next line of
\* stdin, or finds the stream at its end
ReadLine ==
    /\ pc = "wait_stdin"
    /\ \E l \in Lines \cup {EOF} :
         /\ l # EOF => nread < MaxLines
         /\ line' = l
         /\ IF l = EOF
            THEN UNCHANGED <<nread, input, lineno>>
            ELSE /\ nread' = nread + 1
                 /\ input' = Append(input, l)
                 /\ lineno' = nread + 1
    /\ pc' = "got_line"
    /\ UNCHANGED <<output, stdout_open, request, request_count, exit_reason, result>>

\* end-of-stream that goes back to reading instead of leaving the loop
LoopBreak_Continue ==
    /\ pc' = "wait_stdin"
    /\ UNCHANGED <<output, request, request_count, exit_reason, result>>

\* if not line_bytes_str: break
LoopBreak ==
    /\ pc' = "finished"
    /\ exit_reason' = "eof"
    /\ UNCHANGED <<output, request, request_count, result>>

\* an empty line that makes the loop pause like an error does
SkipEmptyLine_Sleeps ==
    /\ pc' = "sleeping"
    /\ UNCHANGED <<output, request, request_count, exit_reason, result>>

\* if not line: continue
SkipEmptyLine ==
    /\ pc' = "wait_stdin"
    /\ UNCHANGED <<output, request, request_count, exit_reason, result>>

\* a JSONDecodeError handler that leaves the loop
DecodeErrorHandler_Break(msg) ==
    /\ output' = on_decode_error(output, stdout_open, request, msg, lineno, nread)
    /\ pc' = "finished"
    /\ exit_reason' = "eof"
    /\ UNCHANGED <<request, request_count, result>>

\* json.loads raised JSONDecodeError: the handler of lines 118-130, then
\* the next iteration (this handler does not sleep)
DecodeErrorHandler(msg) ==
    /\ output' = on_decode_error(output, stdout_open, request, msg, lineno, nread)
    /\ pc' = "wait_stdin"
    /\ UNCHANGED <<request, request_count, exit_reason, result>>

\* a handler of parse exceptions that counts the line as a request
ParseExceptionHandler_Counts(msg) ==
    /\ output' = on_exception(output, stdout_open, request, msg, lineno, nread)
    /\ pc' = "sleeping"
    /\ request_count' = request_count + 1
    /\ UNCHANGED <<request, exit_reason, result>>

\* json.loads raised another Exception: the handler of lines 134-150, which
\* sees the `request` of an earlier iteration
ParseExceptionHandler(msg) ==
    /\ output' = on_exception(output, stdout_open, request, msg, lineno, nread)
    /\ pc' = "sleeping"
    /\ UNCHANGED <<request, request_count, exit_reason, result>>

\* lines 105-116 for a line json.loads accepted, and the handler of
\* lines 134-150 when handle_request or the write of the response raises
Dispatch(parsed) ==
    LET response == handle_request(parsed) IN
    /\ request' = parsed
    /\ request_count' = request_count + 1
    /\ result' = response
    /\ UNCHANGED exit_reason
    /\ IF Raised(response)
       THEN /\ output' = on_exception(output, stdout_open, parsed, response[3],
                                      lineno, nread)
            /\ pc' = "sleeping"
       ELSE IF stdout_open
       THEN /\ output' = stdout_write(output, stdout_open,
                                      Entry(response[2], "response", lineno, nread))
            /\ pc' = "wait_stdin"
       ELSE \* sys.stdout.write/flush raises BrokenPipeError
            /\ output' = on_exception(output, stdout_open, parsed, S_BrokenPipe,
                                      lineno, nread)
            /\ pc' = "sleeping"

\* One iteration of the while loop of process_stdin, from the return of
\* readline() to the next await (or to the end of the loop)
ProcessLine ==
    /\ pc = "got_line"
    /\ IF line = EOF THEN LoopBreak
       ELSE IF IsEmptyLine(line) THEN SkipEmptyLine
       ELSE LET parsed == json_loads(line) IN
            IF ~Raised(parsed) THEN Dispatch(parsed[2])
            ELSE IF parsed[2] = "JSONDecodeError" THEN DecodeErrorHandler(parsed[3])
            ELSE ParseExceptionHandler(parsed[3])
    /\ UNCHANGED <<stdout_open, line, lineno, nread, input>>

\* a sleep that writes a heartbeat line when it completes
Sleep_Heartbeat ==
    /\ pc = "sleeping"
    /\ pc' = "wait_stdin"
    /\ output' = stdout_write(output, stdout_open,
                              Entry(JObj([type |-> JStr(<<"h", "e", "a", "r", "t", "b", "e", "a", "t">>),
                                          models |-> JArr(<<JStr(S_echo_test)>>)]),
                                    "heartbeat", lineno, nread))
    /\ UNCHANGED <<stdout_open, request, request_count, line, lineno, nread,
                   input, exit_reason, result>>

\* asyncio.sleep(0.1) in the `except Exception` handler completes
Sleep ==
    /\ pc = "sleeping"
    /\ pc' = "wait_stdin"
    /\ UNCHANGED <<output, stdout_open, request, request_count, line, lineno, nread,
                   input, exit_reason, result>>

\* the task is cancelled at one of its awaits (except asyncio.CancelledError: break)
Cancel ==
    /\ pc \in {"wait_stdin", "sleeping"}
    /\ pc' = "finished"
    /\ exit_reason' = "cancelled"
    /\ UNCHANGED <<output, stdout_open, request, request_count, line, lineno, nread,
                   input, result>>

\* environment: the consumer of stdout goes away; later writes raise
BreakPipe ==
    /\ stdout_open
    /\ pc \notin {"finished", "aborted"}
    /\ stdout_open' = FALSE
    /\ UNCHANGED <<pc, output, request, request_count, line, lineno, nread, input,
                   exit_reason, result>>

Next == Construct \/ Start \/ ReadLine \/ ProcessLine \/ Sleep \/ Cancel \/ BreakPipe

Spec == Init /\ [][Next]_vars

\* The process with its scheduling: the constructor and asyncio.run are
\* executed, the event loop resumes a coroutine whose await has completed,
\* the sleep of 0.1 s elapses, and readline() on a finite input returns a
\* line or end-of-stream.  Cancellation and the loss of the consumer are
\* not bound to happen.
FairSpec ==
    /\ Spec
    /\ WF_vars(Construct)
    /\ WF_vars(Start)
    /\ WF_vars(ReadLine)
    /\ WF_vars(ProcessLine)
    /\ WF_vars(Sleep)

----------------------------------------------------------------------------
(* handle_request alone, applied to every request of AllRequests *)

HInit ==
    /\ pc = "call"
    /\ request \in AllRequests
    /\ request_count \in 0..MaxCount
    /\ result = NoResult
    /\ output = <<>>
    /\ stdout_open = TRUE
    /\ line = EOF
    /\ lineno = 0
    /\ nread = 0
    /\ input = <<>>
    /\ exit_reason = ""

\* response = await self.handle_request(request)
HandleRequest ==
    /\ pc = "call"
    /\ request_count' = request_count + 1
    /\ result' = handle_request(request)
    /\ pc' = "returned"
    /\ UNCHANGED <<output, stdout_open, request, line, lineno, nread, input, exit_reason>>

HNext == HandleRequest

HSpec == HInit /\ [][HNext]_vars

----------------------------------------------------------------------------
(* Properties *)

\* obj has key `key` with value v
HasField(obj, key, v) == IsDict(obj) /\ key \in DOMAIN obj[2] /\ obj[2][key] = v

\* a startup banner {type: "startup", status: "ready", models, time}
IsStartupMessage(m) ==
    /\ IsDict(m)
    /\ DOMAIN m[2] = {"type", "status", "models", "time"}
    /\ m[2]["type"] = JStr(S_startup)
    /\ m[2]["status"] = JStr(S_ready)
    /\ m[2]["models"] = JArr(<<JStr(S_echo_test)>>)
    /\ m[2]["time"][1] = "num"

BannerPositions == {i \in DOMAIN output : IsStartupMessage(output[i].msg)}

\* C1: the startup banner is never written twice; once construction has
\* succeeded it has been written exactly once; whatever is on the output,
\* its first line is the banner, written when no input line had been read;
\* and no input line is read before the banner is on the output.
C1_StartupBannerOnceAndFirst ==
    /\ Cardinality(BannerPositions) <= 1
    /\ pc \notin {"new", "aborted"} => BannerPositions = {1}
    /\ output # <<>> => BannerPositions = {1} /\ output[1].read = 0
    /\ (nread > 0 \/ pc \in {"got_line", "wait_stdin"}) => BannerPositions = {1}

\* C1 witness: a run that wrote the banner, read lines and wrote a response
C1_Witness ==
    /\ pc = "finished"
    /\ nread >= 2
    /\ Len(output) >= 3
    /\ BannerPositions = {1}

\* the entries of the output written while line n was being processed
EntriesOf(n) == {i \in DOMAIN output : output[i].cause = n}

\* C2: the lines of the output are in the order of the input lines that
\* caused them (at most one per input line); each was written when the
\* line it answers was the last line read, so before the next line was
\* read; and a response of handle_request answers the line that caused it.
C2_ResponsesInInputOrder ==
    /\ \A i, j \in DOMAIN output : i < j => output[i].cause < output[j].cause
    /\ \A i \in DOMAIN output : output[i].read = output[i].cause
    /\ \A i \in DOMAIN output :
         output[i].via = "response" =>
           /\ output[i].cause \in DOMAIN input
           /\ input[output[i].cause][1] = "json"
           /\ handle_request(input[output[i].cause][2]) = Return(output[i].msg)

\* C2 witness: two different responses for two input lines, in input order
C2_Witness ==
    /\ Len(output) >= 3
    /\ output[2].via = "response" /\ output[2].cause = 1
    /\ output[3].via = "response" /\ output[3].cause = 2
    /\ output[2].msg # output[3].msg

----------------------------------------------------------------------------
(* Properties of handle_request (specification HSpec) *)

\* the request's value for key, None when the key is absent
ReqGet(key) == DictGet(request, key, JNull)
ReqHas(key) == key \in DOMAIN request[2]

\* C3: a request whose text is "ping" gets text "pong" and type
\* "ping_response", whatever its other fields are.
C3_PingTextGetsPong ==
    (pc = "returned" /\ ReqGet("text") = JStr(S_ping)) =>
        /\ ~Raised(result)
        /\ HasField(result[2], "text", JStr(S_pong))
        /\ HasField(result[2], "type", JStr(S_ping_response))

\* C3 witness: text "ping" together with type "check" and options null
C3_Witness ==
    /\ pc = "returned"
    /\ ReqGet("text") = JStr(S_ping)
    /\ ReqGet("type") = JStr(S_check)
    /\ ReqHas("options") /\ ReqGet("options") = JNull
    /\ ~Raised(result)
    /\ HasField(result[2], "text", JStr(S_pong))

\* {type: "response", status: "healthy"}, plus the request's id when it
\* has a non-empty one
ExpectedHealth ==
    IF ReqHas("id") /\ Truthy(ReqGet("id"))
    THEN JObj([id |-> ReqGet("id"), type |-> JStr(S_response), status |-> JStr(S_healthy)])
    ELSE JObj([type |-> JStr(S_response), status |-> JStr(S_healthy)])

\* C4 as stated: every request whose type is "check" gets exactly the
\* health response, whatever its text and options are.
C4_CheckAlwaysHealthy ==
    (pc = "returned" /\ ReqGet("type") = JStr(S_check)) =>
        result = Return(ExpectedHealth)

OptionsNotDict == ReqHas("options") /\ ~IsDict(ReqGet("options"))

QuickResponseApplies ==
    /\ ReqHas("options") /\ IsDict(ReqGet("options"))
    /\ Truthy(DictGet(ReqGet("options"), "quick_response", JNull))
    /\ Truthy(ReqGet("text"))

\* C4 amended: a request whose type is "check" and whose text is not "ping"
\* gets exactly the health response when options is absent or a mapping
\* and the quick_response shortcut does not apply (quick_response falsy or
\* text empty or absent); when options is present and not a mapping,
\* handle_request raises.
C4_CheckHealthyUnlessPing ==
    (pc = "returned" /\ ReqGet("type") = JStr(S_check) /\ ReqGet("text") # JStr(S_ping)) =>
        /\ OptionsNotDict => Raised(result)
        /\ (~OptionsNotDict /\ ~QuickResponseApplies) => result = Return(ExpectedHealth)

\* C4 witness: a check with an id, a text and quick_response false
C4_Witness ==
    /\ pc = "returned"
    /\ ReqGet("type") = JStr(S_check)
    /\ ReqGet("text") = JStr(S_hello_world)
    /\ ReqGet("options") = JObj([quick_response |-> JBool(FALSE)])
    /\ ReqGet("id") = JNum(7)
    /\ result = Return(JObj([id |-> JNum(7), type |-> JStr(S_response),
                             status |-> JStr(S_healthy)]))

\* C5: a response carries the request's id when that id is present and
\* non-empty (truthy), has no id key when the request has none, and never
\* carries a null id.
C5_IdEchoedOrOmitted ==
    (pc = "returned" /\ ~Raised(result)) =>
        /\ (ReqHas("id") /\ Truthy(ReqGet("id"))) => HasField(result[2], "id", ReqGet("id"))
        /\ ~ReqHas("id") => "id" \notin DOMAIN result[2][2]
        /\ "id" \in DOMAIN result[2][2] => result[2][2]["id"] # JNull

\* C5 witness: an echo response for a request without an id
C5_Witness ==
    /\ pc = "returned"
    /\ ~ReqHas("id")
    /\ ReqGet("text") = JStr(S_hello_world)
    /\ ~Raised(result)
    /\ DOMAIN result[2][2] = {"text", "model", "usage"}

\* the request matches neither the ping shortcut nor the health check
IsEchoRequest ==
    /\ ReqGet("text") # JStr(S_ping)
    /\ ReqGet("type") # JStr(S_ping)
    /\ ~OptionsNotDict
    /\ ~QuickResponseApplies
    /\ ReqGet("type") # JStr(S_check)

\* number of whitespace-separated tokens of s: its positions that start a token
NumTokens(s) ==
    Cardinality({i \in DOMAIN s :
                   s[i] \notin Whitespace /\ (i = 1 \/ s[i - 1] \in Whitespace)})

\* C6: the response to an echo request has promptTokens = completionTokens =
\* the number of whitespace-separated tokens of the text (0 for an absent
\* or empty text) and totalTokens = their sum; an echo request whose text
\* is absent or a string always gets such a response.
C6_UsageCountsTokens ==
    (pc = "returned" /\ IsEchoRequest) =>
        LET text == DictGet(request, "text", JStr(<<>>))
            n == IF text[1] = "str" THEN NumTokens(text[2]) ELSE 0
        IN  /\ text[1] = "str" => ~Raised(result)
            /\ ~Raised(result) =>
                 /\ text[1] = "str"
                 /\ HasField(result[2], "usage",
                             JObj([promptTokens |-> JNum(n), completionTokens |-> JNum(n),
                                   totalTokens |-> JNum(n + n)]))
                 /\ (~ReqHas("text") \/ text = JStr(<<>>)) => n = 0

\* C6 witness: an echo of a text with two tokens and repeated whitespace
C6_Witness ==
    /\ pc = "returned"
    /\ IsEchoRequest
    /\ ReqGet("text") = JStr(<<" ", "a", "\t", " ", "b", "\n">>)
    /\ ~Raised(result)
    /\ result[2][2]["usage"][2]["totalTokens"] = JNum(4)

\* C7 as stated: ping and echo responses carry the request's model when it
\* is non-empty and "echo-test" when it is absent, empty or null; the echo
\* text is "Echo from " + that model + ": " + text.
C7_ModelOrDefault ==
    (pc = "returned" /\ ~Raised(result) /\ "model" \in DOMAIN result[2][2]) =>
        LET model == IF ReqHas("model") /\ Truthy(ReqGet("model"))
                     THEN ReqGet("model") ELSE JStr(S_echo_test)
            text == DictGet(request, "text", JStr(<<>>))
        IN  /\ HasField(result[2], "model", model)
            /\ IsEchoRequest =>
                 HasField(result[2], "text",
                          JStr(S_EchoFrom \o Format(model) \o S_ColonSp \o text[2]))

----------------------------------------------------------------------------
(* Properties of the read loop: errors (specification Spec) *)

\* line n of the input has been through its iteration of the loop
Processed(n) ==
    /\ n \in DOMAIN input
    /\ n < lineno \/ pc # "got_line" \/ line = EOF

\* json.loads or handle_request raises on the line
FailsLine(l) ==
    \/ l[1] \in {"bad", "deep"}
    \/ l[1] = "json" /\ Raised(handle_request(l[2]))

\* the line is a request object for which handle_request builds a response
ValidRequestLine(l) ==
    l[1] = "json" /\ IsDict(l[2]) /\ ~Raised(handle_request(l[2]))

\* C8: the loop ends only at end-of-stream or on cancellation, never because
\* of what a line contains; and a valid request read right after a line
\* that failed to parse or whose handling raised gets exactly one output
\* line, the response handle_request builds for it (while stdout accepts
\* writes).
C8_LoopSurvivesBadLines ==
    /\ pc = "finished" =>
         \/ exit_reason = "eof" /\ line = EOF
         \/ exit_reason = "cancelled"
    /\ \A n \in DOMAIN input :
         (/\ n >= 2
          /\ Processed(n)
          /\ stdout_open
          /\ FailsLine(input[n - 1])
          /\ ValidRequestLine(input[n])) =>
            \E i \in DOMAIN output :
              /\ EntriesOf(n) = {i}
              /\ output[i].via = "response"
              /\ Return(output[i].msg) = handle_request(input[n][2])

\* C8 witness: a malformed line, then a line whose handling raises, then a
\* valid request that got its response
C8_Witness ==
    /\ Len(input) = 3
    /\ input[1][1] = "bad"
    /\ input[2] = JsonLine(R_badopts)
    /\ input[3] = JsonLine(R_echo)
    /\ Processed(3)
    /\ output[Len(output)].via = "response"
    /\ output[Len(output)].cause = 3
    /\ Return(output[Len(output)].msg) = handle_request(R_echo)

\* C9 as stated: every error response written for a line that failed to
\* parse is {id: "error", error: "JSON decode error: <message>",
\* text: "Failed to parse JSON request"}.
C9_DecodeErrorIdIsError ==
    \A i \in DOMAIN output :
        output[i].via = "decode_error" =>
            output[i].msg =
                JObj([id    |-> JStr(S_error),
                      error |-> JStr(S_JsonDecodePrefix \o input[output[i].cause][2]),
                      text  |-> JStr(S_FailedToParse)])

\* the iteration about to run handles a parsed, non-empty request object
\* and either handle_request raises or the write of the response fails
HandlingFails ==
    /\ pc = "got_line"
    /\ line[1] = "json"
    /\ IsDict(line[2])
    /\ Truthy(line[2])
    /\ Raised(handle_request(line[2])) \/ ~stdout_open

FailureMessage ==
    IF Raised(handle_request(line[2])) THEN handle_request(line[2])[3] ELSE S_BrokenPipe

ExpectedErrorResponse ==
    JObj([id    |-> IF "id" \in DOMAIN line[2][2] THEN line[2][2]["id"] ELSE JStr(S_error),
          error |-> JStr(FailureMessage),
          text  |-> JStr(S_ErrProcPrefix \o FailureMessage)])

\* C10 as stated: when building or writing the response for a parsed,
\* non-empty request object fails, exactly one error response is written
\* for that line, and the loop then pauses.
C10_ExactlyOneErrorResponse ==
    [][(HandlingFails /\ pc' # pc) =>
          /\ output' = Append(output, Entry(ExpectedErrorResponse, "error", lineno, nread))
          /\ pc' = "sleeping"]_vars

\* C10 amended: when building or writing the response for a parsed,
\* non-empty request object fails, the loop writes exactly one error
\* response {id: request id or "error", error: message,
\* text: "Error processing request: " + message} for that line if stdout
\* accepts the write, and nothing if it does not (so nothing when the
\* failure was the write of the response); the loop then pauses, and after
\* the pause it reads again (unless it is cancelled).
C10_ErrorResponseBestEffort ==
    [][/\ (HandlingFails /\ pc' # pc) =>
            /\ output' = IF stdout_open
                         THEN Append(output, Entry(ExpectedErrorResponse, "error",
                                                   lineno, nread))
                         ELSE output
            /\ pc' = "sleeping"
       /\ (pc = "sleeping" /\ pc' # pc) =>
            \/ pc' = "wait_stdin" /\ output' = output
            \/ pc' = "finished" /\ exit_reason' = "cancelled"]_vars

\* C10 witness: the loop pauses after it wrote the error response for a
\* request without id whose handling raised
C10_Witness ==
    /\ pc = "sleeping"
    /\ lineno \in DOMAIN input
    /\ input[lineno] = JsonLine(R_nulltext)
    /\ output # <<>>
    /\ output[Len(output)].via = "error"
    /\ output[Len(output)].cause = lineno
    /\ HasField(output[Len(output)].msg, "id", JStr(S_error))
    /\ HasField(output[Len(output)].msg, "text",
                JStr(S_ErrProcPrefix \o AttributeErrorMsg(JNull, S_split)))

----------------------------------------------------------------------------
(* Properties of the read loop: end of stream, counter, empty lines *)

\* C11: at end-of-stream the loop ends and writes nothing, and nothing is
\* written once it has ended; when the input is closed before any line,
\* the whole output is the startup banner; and on every (finite) input the
\* loop eventually ends.
C11_EndOfStreamTerminates ==
    /\ [][/\ (pc = "got_line" /\ line = EOF /\ pc' # pc) =>
               (pc' = "finished" /\ exit_reason' = "eof" /\ output' = output)
          /\ pc = "finished" => (pc' = "finished" /\ output' = output)]_vars
    /\ []((pc = "finished" /\ exit_reason = "eof" /\ nread = 0) =>
             (Len(output) = 1 /\ IsStartupMessage(output[1].msg)))
    /\ <>(pc \in {"finished", "aborted"})

\* C11 witness: the loop ended at end-of-stream after it wrote responses
C11_Witness ==
    /\ pc = "finished"
    /\ exit_reason = "eof"
    /\ nread = MaxLines
    /\ Len(output) >= 3

\* C12: two input lines carrying the same request object get identical
\* responses from handle_request, whatever was processed before or between
\* them and whatever the request counter was.
C12_SameRequestSameResponse ==
    \A i, j \in DOMAIN output :
        (/\ output[i].via = "response"
         /\ output[j].via = "response"
         /\ input[output[i].cause] = input[output[j].cause]) =>
            output[i].msg = output[j].msg

\* C12 witness: the same ping request answered twice, with a malformed
\* line in between and different values of the request counter
C12_Witness ==
    /\ Len(input) = 3
    /\ input[1] = JsonLine(R_ping)
    /\ input[2][1] = "bad"
    /\ input[3] = JsonLine(R_ping)
    /\ request_count = 2
    /\ Len(output) = 4
    /\ output[2].via = "response" /\ output[2].cause = 1
    /\ output[4].via = "response" /\ output[4].cause = 3
    /\ output[2].msg = output[4].msg

\* C13: a request whose options.quick_response is truthy and whose text is
\* non-empty gets the ping response, also when neither its text nor its
\* type is "ping"; with an empty or absent text (and a type other than
\* "ping") it gets the health response when its type is "check" and the
\* echo response otherwise.
C13_QuickResponseNeedsText ==
    (/\ pc = "returned"
     /\ ReqHas("options") /\ IsDict(ReqGet("options"))
     /\ Truthy(DictGet(ReqGet("options"), "quick_response", JNull))) =>
        /\ (ReqHas("text") /\ Truthy(ReqGet("text"))) =>
             /\ ~Raised(result)
             /\ HasField(result[2], "text", JStr(S_pong))
             /\ HasField(result[2], "type", JStr(S_ping_response))
        /\ ((~ReqHas("text") \/ ReqGet("text") = JStr(<<>>)) /\ ReqGet("type") # JStr(S_ping)) =>
             /\ ~Raised(result)
             /\ IF ReqGet("type") = JStr(S_check)
                THEN result = Return(ExpectedHealth)
                ELSE /\ "usage" \in DOMAIN result[2][2]
                     /\ "type" \notin DOMAIN result[2][2]
                     /\ HasField(result[2], "text",
                                 JStr(S_EchoFrom
                                      \o Format(DictGet(request, "model", JStr(S_echo_test)))
                                      \o S_ColonSp))

\* C13 witness: quick_response 1, a text other than "ping" and type "check"
\* give the ping response
C13_Witness ==
    /\ pc = "returned"
    /\ ReqGet("options") = JObj([quick_response |-> JNum(1)])
    /\ ReqGet("text") = JStr(S_hello_world)
    /\ ReqGet("type") = JStr(S_check)
    /\ ~Raised(result)
    /\ HasField(result[2], "type", JStr(S_ping_response))

\* the lines of the input that have been through json.loads successfully
ParsedLines == {n \in DOMAIN input : Processed(n) /\ input[n][1] = "json"}

\* C14: the request counter equals the number of input lines that have
\* parsed successfully as JSON so far (objects or not); a step never
\* decreases it and raises it by at most 1, and the iterations for an empty
\* line, a line that fails to parse and end-of-stream leave it unchanged.
C14_CounterCountsParsedLines ==
    /\ [](request_count = Cardinality(ParsedLines))
    /\ [][/\ request_count' \in {request_count, request_count + 1}
          /\ (pc = "got_line" /\ pc' # pc /\ line[1] = "json") =>
                request_count' = request_count + 1
          /\ (pc = "got_line" /\ pc' # pc /\ line[1] # "json") =>
                request_count' = request_count]_vars

\* C14 witness: three lines read, of which an array and a request parsed
C14_Witness ==
    /\ Len(input) = 3
    /\ input[1] = JsonLine(JArr(<<JNum(1)>>))
    /\ input[2][1] = "bad"
    /\ input[3] = JsonLine(R_check)
    /\ Processed(3)
    /\ request_count = 2

\* C15: the iteration for a line that is empty after trimming whitespace
\* writes nothing, leaves the request counter and the rest of the server's
\* state unchanged, and goes straight back to reading (no pause).
C15_EmptyLineSkipped ==
    [][(/\ pc = "got_line"
        /\ pc' # pc
        /\ line[1] = "blank"
        /\ \A i \in DOMAIN line[2] : line[2][i] \in Whitespace) =>
          /\ pc' = "wait_stdin"
          /\ UNCHANGED <<output, request, request_count, stdout_open, exit_reason,
                         result, nread, input>>]_vars

\* C15 witness: an empty line was skipped after a request was answered
C15_Witness ==
    /\ pc = "wait_stdin"
    /\ Len(input) = 2
    /\ input[1] = JsonLine(R_ping)
    /\ input[2][1] = "blank"
    /\ lineno = 2
    /\ request_count = 1
    /\ Len(output) = 2
    /\ request = R_ping

\* the input lines read so far that are not empty after trimming
NonEmptyLines == {n \in DOMAIN input : input[n][1] # "blank"}

\* C16: every line of the output after the banner was written in reaction
\* to one non-empty input line, by the response write or one of the two
\* error writes; no input line has more than one output line; a step
\* writes at most one line, and only the constructor and the iteration for
\* a non-empty line write; so the output never has more than 1 + (number
\* of non-empty input lines read) lines, and none is a heartbeat.
C16_NoUnsolicitedOutput ==
    /\ [](/\ \A i \in DOMAIN output :
               IF i = 1
               THEN output[i].via = "startup"
               ELSE /\ output[i].via \in {"response", "decode_error", "error"}
                    /\ output[i].cause \in NonEmptyLines
                    /\ ~HasField(output[i].msg, "type",
                                 JStr(<<"h", "e", "a", "r", "t", "b", "e", "a", "t">>))
          /\ \A n \in DOMAIN input : Cardinality(EntriesOf(n)) <= 1
          /\ Len(output) <= 1 + Cardinality(NonEmptyLines))
    /\ [][output' # output =>
            /\ \E e \in {output'[Len(output')]} : output' = Append(output, e)
            /\ \/ pc = "new"
               \/ pc = "got_line" /\ line # EOF /\ line[1] # "blank"]_vars

\* C16 witness: three non-empty lines read and four lines on the output
C16_Witness ==
    /\ pc = "finished"
    /\ Cardinality(NonEmptyLines) = 3
    /\ Len(output) = 4

----------------------------------------------------------------------------
(* Properties of the read loop: what an output line depends on *)

\* the output line written in reaction to input line n, or <<>> for none
OutputFor(n) == [i \in 1..Cardinality(EntriesOf(n)) |->
                    output[CHOOSE k \in EntriesOf(n) :
                        Cardinality({m \in EntriesOf(n) : m < k}) = i - 1].msg]

\* C17 as stated: what is written in reaction to an input line depends on
\* the content of that line alone (two processed lines with the same
\* content, whatever was read before them, have the same output, while
\* stdout accepts writes); and an output line that carries a request id
\* was written in reaction to an input line that carries that id.
C17_OutputDependsOnLineAlone ==
    /\ \A n, m \in DOMAIN input :
         (Processed(n) /\ Processed(m) /\ stdout_open /\ input[n] = input[m]) =>
             OutputFor(n) = OutputFor(m)
    /\ \A i \in DOMAIN output :
         (/\ i > 1
          /\ "id" \in DOMAIN output[i].msg[2]
          /\ output[i].msg[2]["id"] # JStr(S_error)) =>
             /\ input[output[i].cause][1] = "json"
             /\ HasField(input[output[i].cause][2], "id", output[i].msg[2]["id"])

\* the value of the latest successful json.loads before the line held in
\* `line`, Unbound when there is none
LastParsedBefore ==
    LET earlier == {n \in 1..(lineno - 1) : input[n][1] = "json"}
    IN  IF earlier = {} THEN Unbound
        ELSE input[CHOOSE n \in earlier : \A k \in earlier : k <= n][2]

\* C18: the iteration for a line that json.loads rejects as malformed writes
\* nothing when no line has parsed successfully before it, and when the
\* most recently parsed JSON value is not an object or is an object without
\* an id key; it then reads on without pausing.
C18_DecodeErrorSilentWithoutId ==
    [][(/\ pc = "got_line"
        /\ pc' # pc
        /\ line[1] = "bad"
        /\ \/ LastParsedBefore = Unbound
           \/ ~IsDict(LastParsedBefore)
           \/ "id" \notin DOMAIN LastParsedBefore[2]) =>
          /\ output' = output
          /\ pc' = "wait_stdin"]_vars

\* C18 witness: a malformed line read after a request without id wrote nothing
C18_Witness ==
    /\ pc = "wait_stdin"
    /\ stdout_open
    /\ Len(input) = 2
    /\ input[1] = JsonLine(R_echo)
    /\ input[2][1] = "bad"
    /\ lineno = 2
    /\ Len(output) = 2
    /\ output[2].cause = 1

\* C19: the iteration for a line that parses as JSON but is not an object
\* writes nothing, increments the request counter, and pauses; after the
\* pause the loop reads again (unless it is cancelled).
C19_NonObjectCountedNotAnswered ==
    [][/\ (pc = "got_line" /\ pc' # pc /\ line[1] = "json" /\ ~IsDict(line[2])) =>
            /\ output' = output
            /\ request_count' = request_count + 1
            /\ pc' = "sleeping"
       /\ (pc = "sleeping" /\ pc' # pc) =>
            \/ pc' = "wait_stdin" /\ output' = output
            \/ pc' = "finished" /\ exit_reason' = "cancelled"]_vars

\* C19 witness: the loop pauses after an array line that was counted and
\* got no output line
C19_Witness ==
    /\ pc = "sleeping"
    /\ stdout_open
    /\ Len(input) = 2
    /\ input[1] = JsonLine(R_ping)
    /\ input[2] = JsonLine(JArr(<<JNum(1)>>))
    /\ lineno = 2
    /\ request_count = 2
    /\ Len(output) = 2

====
